---- MODULE Spec2Model ----
(***************************************************************************)
(* Model of src/printf.c: the format interpreter format_out, the numeric   *)
(* converters ntoa_long / ntoa_long_long with the layout engine            *)
(* ntoa_format, the string renderer print_string and the sinks out_sprintf *)
(* and out_char behind printf_, sprintf_ and snprintf_ / vsnprintf_.       *)
(*                                                                         *)
(* Characters are byte codes 0..255.  Integer values are wider than TLC's  *)
(* integers, so an unsigned magnitude is a sequence of decimal digits,     *)
(* most significant first, without leading zeros (zero is <<>>); the       *)
(* shifts and masks of the power-of-two bases work on its bit sequence.    *)
(* The data model is LP64: int 32 bits, long, long long and pointers 64.   *)
(***************************************************************************)
EXTENDS Integers, Sequences, FiniteSets, TLC

\* ------------------------------------------------------------------------
\* Characters
\* ------------------------------------------------------------------------

\* The printable ASCII characters, code 32 first (the double quote, the
\* backslash and the backquote are spelled out).
PrintableAscii ==
  << " ", "!", "dquote", "#", "$", "%", "&", "'", "(", ")", "*", "+", ",", "-",
     ".", "/", "0", "1", "2", "3", "4", "5", "6", "7", "8", "9", ":", ";",
     "<", "=", ">", "?", "@", "A", "B", "C", "D", "E", "F", "G", "H", "I",
     "J", "K", "L", "M", "N", "O", "P", "Q", "R", "S", "T", "U", "V", "W",
     "X", "Y", "Z", "[", "bslash", "]", "^", "_", "bquote", "a", "b", "c", "d", "e",
     "f", "g", "h", "i", "j", "k", "l", "m", "n", "o", "p", "q", "r", "s",
     "t", "u", "v", "w", "x", "y", "z", "{", "|", "}", "~" >>

\* The byte code of a character literal.
Ord(c) == 31 + (CHOOSE i \in 1..Len(PrintableAscii) : PrintableAscii[i] = c)

\* A string literal as the bytes of a C string, without the terminator.
RECURSIVE StrFrom(_, _)
StrFrom(cs, i) == IF i > Len(cs) THEN <<>> ELSE <<Ord(cs[i])>> \o StrFrom(cs, i + 1)
Str(cs) == StrFrom(cs, 1)

NUL == 0
cPercent == Ord("%")
cSpace == Ord(" ")
cZero == Ord("0")
cNine == Ord("9")
cMinus == Ord("-")
cPlus == Ord("+")
cHash == Ord("#")
cStar == Ord("*")
cDot == Ord(".")
cLowerA == Ord("a")
cUpperA == Ord("A")
cLowerX == Ord("x")
cUpperX == Ord("X")
cLowerB == Ord("b")
cLowerC == Ord("c")
cLowerD == Ord("d")
cLowerH == Ord("h")
cLowerI == Ord("i")
cLowerJ == Ord("j")
cLowerL == Ord("l")
cLowerO == Ord("o")
cLowerP == Ord("p")
cLowerS == Ord("s")
cLowerT == Ord("t")
cLowerU == Ord("u")
cLowerZ == Ord("z")

\* Conversion of an int expression to the char parameter of the sink.
ToChar(n) == n % 256

Min(a, b) == IF a < b THEN a ELSE b

\* ------------------------------------------------------------------------
\* Unsigned magnitudes as decimal digit sequences
\* ------------------------------------------------------------------------

RECURSIVE Trim(_)
Trim(v) == IF v = <<>> THEN <<>> ELSE IF Head(v) = 0 THEN Trim(Tail(v)) ELSE v

\* A small natural number as a magnitude.
RECURSIVE Dec(_)
Dec(n) == IF n = 0 THEN <<>> ELSE Dec(n \div 10) \o <<n % 10>>

\* v mod m for a small modulus m (the low bits kept by a narrowing cast).
RECURSIVE ModSmallFrom(_, _, _, _)
ModSmallFrom(v, m, i, acc) ==
  IF i > Len(v) THEN acc ELSE ModSmallFrom(v, m, i + 1, (acc * 10 + v[i]) % m)
ModSmall(v, m) == ModSmallFrom(v, m, 1, 0)

\* a >= b on magnitudes.
RECURSIVE GeqFrom(_, _, _)
GeqFrom(a, b, i) ==
  IF i > Len(a) THEN TRUE
  ELSE IF a[i] # b[i] THEN a[i] > b[i]
  ELSE GeqFrom(a, b, i + 1)
Geq(a, b) ==
  IF Len(a) # Len(b) THEN Len(a) > Len(b) ELSE GeqFrom(a, b, 1)

\* 10^k.
Pow10(k) == <<1>> \o [i \in 1..k |-> 0]

\* value / l and value % l for l a power of ten.
DivPow10(v, l) ==
  IF Len(v) < Len(l) THEN <<>> ELSE SubSeq(v, 1, Len(v) - (Len(l) - 1))
ModPow10(v, l) ==
  IF Len(v) < Len(l) THEN v ELSE Trim(SubSeq(v, Len(v) - (Len(l) - 1) + 1, Len(v)))

\* v / 2 and the bits of v, least significant first, without leading zeros.
RECURSIVE HalveFrom(_, _, _)
HalveFrom(v, i, carry) ==
  IF i > Len(v) THEN <<>>
  ELSE <<(carry * 10 + v[i]) \div 2>> \o HalveFrom(v, i + 1, (carry * 10 + v[i]) % 2)
Halve(v) == Trim(HalveFrom(v, 1, 0))
RECURSIVE BitsOf(_)
BitsOf(v) == IF v = <<>> THEN <<>> ELSE <<v[Len(v)] % 2>> \o BitsOf(Halve(v))

\* a - b on magnitudes, for a >= b.
RECURSIVE SubFrom(_, _, _, _)
SubFrom(a, b, i, borrow) ==
  IF i > Len(a) THEN <<>>
  ELSE LET bi == IF i <= Len(b) THEN b[Len(b) + 1 - i] ELSE 0
           d == a[Len(a) + 1 - i] - bi - borrow
       IN  SubFrom(a, b, i + 1, IF d < 0 THEN 1 ELSE 0) \o <<IF d < 0 THEN d + 10 ELSE d>>
Sub(a, b) == Trim(SubFrom(a, b, 1, 0))

\* The low bits of a bit sequence as a natural number: x & mask for the masks
\* of base_mask, all of the form 2^k - 1 with k <= 4.
AndMask(b, mask) ==
  LET bit(j) == IF j <= Len(b) THEN b[j] ELSE 0
  IN  (bit(1) + 2 * bit(2) + 4 * bit(3) + 8 * bit(4)) % (mask + 1)

\* x >> s on a bit sequence.
ShiftRight(b, s) == IF s >= Len(b) THEN <<>> ELSE SubSeq(b, s + 1, Len(b))

\* ------------------------------------------------------------------------
\* Platform (LP64) and limits of the argument types
\* ------------------------------------------------------------------------

SizeofVoidPtr == 8
LongIsLongLong == TRUE      \* sizeof(long) == sizeof(long long)
CharIsSigned == TRUE

IntMax == <<2, 1, 4, 7, 4, 8, 3, 6, 4, 7>>
IntMinMag == <<2, 1, 4, 7, 4, 8, 3, 6, 4, 8>>
UIntMax == <<4, 2, 9, 4, 9, 6, 7, 2, 9, 5>>
UIntModulus == <<4, 2, 9, 4, 9, 6, 7, 2, 9, 6>>     \* 2^32
LLongMax == <<9, 2, 2, 3, 3, 7, 2, 0, 3, 6, 8, 5, 4, 7, 7, 5, 8, 0, 7>>
LLongMinMag == <<9, 2, 2, 3, 3, 7, 2, 0, 3, 6, 8, 5, 4, 7, 7, 5, 8, 0, 8>>
ULLongMax == <<1, 8, 4, 4, 6, 7, 4, 4, 0, 7, 3, 7, 0, 9, 5, 5, 1, 6, 1, 5>>
SizeMax == ULLongMax      \* (size_t)-1
\* 2^64 - 2^31: INT_MIN converted to unsigned long.
IntMinAsULong == Sub(ULLongMax, Sub(IntMinMag, Dec(1)))

\* ------------------------------------------------------------------------
\* Tables
\* ------------------------------------------------------------------------

pow10_long == [k \in 0..9 |-> Pow10(k)]
pow10_long_long == [k \in 0..19 |-> Pow10(k)]
base_bits == [BINARY |-> 1, OCTAL |-> 3, DECIMAL |-> 0, HEX |-> 4]
base_mask == [BINARY |-> 1, OCTAL |-> 7, DECIMAL |-> 0, HEX |-> 15]
ARRAY_SIZE(a) == Cardinality(DOMAIN a)

\* ------------------------------------------------------------------------
\* The sinks
\* ------------------------------------------------------------------------

\* A sprintf_data_t over a caller's region of `count` bytes.  buffer is the
\* memory around the region (cells -1 and count are the neighbours' bytes), wp
\* the offset of data->buffer from the start of the region, maxlen the size_t
\* member as a magnitude, writes the set of cells stored to so far (cells
\* beyond `count` are memory the model does not hold).
cFill == Ord("?")
NewSink(count, maxlen, isnull) ==
  [buffer |-> [i \in -1..count |-> cFill], wp |-> 0, maxlen |-> maxlen,
   null |-> isnull, writes |-> {}]

\* *data->buffer = character
Store(s, at, character) ==
  [s EXCEPT !.buffer = IF at \in DOMAIN @ THEN [@ EXCEPT ![at] = character] ELSE @,
            !.writes = @ \cup {at}]

out_sprintf(s, character) ==
  IF s.maxlen # <<>> /\ ~s.null
  THEN [Store(s, s.wp, character) EXCEPT !.wp = @ + 1, !.maxlen = Sub(@, Dec(1))]
  ELSE s

\* out_char: the characters handed to _putchar, con, gain every character
\* but 0.
out_char(con, character) == IF character # NUL THEN Append(con, character) ELSE con

\* ------------------------------------------------------------------------
\* Emission.  A machine m is [d: the data_t in use, sk: the sink contexts,
\* con: the characters handed to _putchar, em: the characters handed to
\* data->out during the current step].
\* ------------------------------------------------------------------------

\* data->out(c, data->ptr)
Out(m, c) ==
  IF m.d.out = "out_char"
  THEN [m EXCEPT !.con = out_char(@, c), !.em = Append(@, c)]
  ELSE [m EXCEPT !.sk[m.d.ptr] = out_sprintf(@, c), !.em = Append(@, c)]

\* data->idx++ on the uint8_t counter
IdxInc(m) == [m EXCEPT !.d.idx = (@ + 1) % 256]

do_out(m, c) == IdxInc(Out(m, c))

\* n times: out(c) followed by idx++.
RECURSIVE OutCounted(_, _, _)
OutCounted(m, c, n) == IF n = 0 THEN m ELSE OutCounted(do_out(m, c), c, n - 1)

\* n times: out(c) alone.
RECURSIVE OutOnly(_, _, _)
OutOnly(m, c, n) == IF n = 0 THEN m ELSE OutOnly(Out(m, c), c, n - 1)

MAX(a, b) == IF a > b THEN a ELSE b

\* ------------------------------------------------------------------------
\* Field layout engine
\* ------------------------------------------------------------------------

\* Lines 201-223: the reductions of width and precision.
LayoutWidths(d) ==
  LET w1 == MAX(d.width - d.digit_count, 0)
      p1 == MAX(d.precision - d.digit_count, 0)
      w2 == IF w1 > 0 /\ d.flags \cap {"NEGATIVE", "PLUS", "SPACE"} # {}
            THEN w1 - 1 ELSE w1
      w3 == IF "PRECISION" \in d.flags THEN MAX(w2 - p1, 0) ELSE w2
      w4 == IF "HASH" \in d.flags
            THEN IF d.base \in {"HEX", "BINARY"} THEN MAX(w3 - 2, 0)
                 ELSE IF w3 > 0 THEN w3 - 1 ELSE w3
            ELSE w3
  IN  [d EXCEPT !.width = w4, !.precision = p1]

\* Lines 225-234: pad spaces up to the given width.
LayoutPadSpaces(m) ==
  IF "LEFT" \notin m.d.flags /\ "ZEROPAD" \notin m.d.flags
  THEN [OutCounted(m, cSpace, m.d.width) EXCEPT !.d.width = 0]
  ELSE m

\* Lines 236-250: the sign.
LayoutSign(m) ==
  IF "NEGATIVE" \in m.d.flags THEN do_out(m, cMinus)
  ELSE IF "PLUS" \in m.d.flags THEN do_out(m, cPlus)
  ELSE IF "SPACE" \in m.d.flags THEN do_out(m, cSpace)
  ELSE m

\* Lines 252-272: the radix prefix.
LayoutHash(m) ==
  IF "HASH" \in m.d.flags
  THEN LET m1 == do_out(m, cZero)
       IN  IF m.d.base = "HEX" /\ "UPPERCASE" \notin m.d.flags THEN do_out(m1, cLowerX)
           ELSE IF m.d.base = "HEX" /\ "UPPERCASE" \in m.d.flags THEN do_out(m1, cUpperX)
           ELSE IF m.d.base = "BINARY" THEN do_out(m1, cLowerB)
           ELSE m1
  ELSE m

\* Lines 274-289: leading zeros.
LayoutZeros(m) ==
  IF "LEFT" \notin m.d.flags
  THEN LET m1 == [OutCounted(m, cZero, m.d.precision) EXCEPT !.d.precision = 0]
       IN  IF "ZEROPAD" \in m1.d.flags
           THEN [OutCounted(m1, cZero, m1.d.width) EXCEPT !.d.width = 0]
           ELSE m1
  ELSE m

ntoa_format(m) ==
  LayoutZeros(LayoutHash(LayoutSign(LayoutPadSpaces([m EXCEPT !.d = LayoutWidths(@)]))))

\* ------------------------------------------------------------------------
\* Numeric converter
\* ------------------------------------------------------------------------

\* The decimal branch of get_digits_long / get_digits_long_long over `table`.
RECURSIVE DecimalDigits(_, _, _)
DecimalDigits(value, table, digits) ==
  IF digits < ARRAY_SIZE(table) /\ Geq(value, table[digits])
  THEN DecimalDigits(value, table, digits + 1)
  ELSE digits

\* The shifting branch: value is a bit sequence.
RECURSIVE ShiftDigits(_, _, _)
ShiftDigits(bits, shift, digits) ==
  IF Len(bits) > 0
  THEN ShiftDigits(ShiftRight(bits, shift), shift, digits + 1)
  ELSE digits

get_digits_long(value, base) ==
  IF base = "DECIMAL" THEN DecimalDigits(value, pow10_long, 0)
  ELSE ShiftDigits(BitsOf(value), base_bits[base], 0)

get_digits_long_long(value, base) ==
  IF base = "DECIMAL" THEN DecimalDigits(value, pow10_long_long, 0)
  ELSE ShiftDigits(BitsOf(value), base_bits[base], 0)

\* The decimal digit loop (lines 331-339, 397-405).
RECURSIVE DecimalLoop(_, _, _)
DecimalLoop(m, value, table) ==
  IF m.d.digit_count > 0
  THEN LET dc == m.d.digit_count - 1
           l == table[dc]
           digit == ModSmall(DivPow10(value, l), 256)
       IN  DecimalLoop(do_out([m EXCEPT !.d.digit_count = dc], ToChar(digit + cZero)),
                       ModPow10(value, l), table)
  ELSE m

\* The character of one digit of a power-of-two base (lines 346, 415).
DigitChar(digit, flags) ==
  IF digit < 10 THEN ToChar(cZero + digit)
  ELSE ToChar((IF "UPPERCASE" \in flags THEN cUpperA ELSE cLowerA) + digit - 10)

\* The digit loop of the power-of-two bases (lines 343-348, 412-417).
RECURSIVE ShiftLoop(_, _, _, _)
ShiftLoop(m, bits, nbits, mask) ==
  IF m.d.digit_count > 0
  THEN LET digit == AndMask(ShiftRight(bits, (m.d.digit_count - 1) * nbits), mask)
           m1 == do_out(m, DigitChar(digit, m.d.flags))
       IN  ShiftLoop([m1 EXCEPT !.d.digit_count = @ - 1], bits, nbits, mask)
  ELSE m

\* Lines 352-360 and 421-427: append pad spaces up to the given width; the
\* loop calls data->out and leaves data->idx alone.
TrailingPad(m) ==
  IF "LEFT" \in m.d.flags
  THEN [OutOnly(m, cSpace, m.d.width) EXCEPT !.d.width = 0]
  ELSE m

\* Lines 322 and 389: are digits written at all.  WritesDigitsAlways is the
\* condition without the precision test.
WritesDigitsAlways(flags, value) == TRUE
WritesDigits(flags, value) == "PRECISION" \notin flags \/ value # <<>>

NtoaDigits(m, value, table) ==
  IF WritesDigits(m.d.flags, value)
  THEN IF value = <<>> THEN do_out(m, cZero)
       ELSE IF m.d.base = "DECIMAL" THEN DecimalLoop(m, value, table)
       ELSE ShiftLoop(m, BitsOf(value), base_bits[m.d.base], base_mask[m.d.base])
  ELSE m

ntoa_long(m, value) == TrailingPad(NtoaDigits(m, value, pow10_long))

ntoa_long_long(m, value) == TrailingPad(NtoaDigits(m, value, pow10_long_long))

\* Lines 482 and 434: no hash for 0 values.
ClearsHash(value) == value = <<>>

pre_format_long(d, value, negative) ==
  [d EXCEPT !.digit_count = get_digits_long(value, d.base),
            !.flags = (IF ClearsHash(value) THEN @ \ {"HASH"} ELSE @)
                      \cup (IF negative THEN {"NEGATIVE"} ELSE {})]

pre_format_long_long(d, value, negative) ==
  [d EXCEPT !.digit_count = get_digits_long_long(value, d.base),
            !.flags = (IF ClearsHash(value) THEN @ \ {"HASH"} ELSE @)
                      \cup (IF negative THEN {"NEGATIVE"} ELSE {})]

\* ------------------------------------------------------------------------
\* String renderer
\* ------------------------------------------------------------------------

\* A string argument is [bytes, size]: bytes is the memory from the pointer
\* on (the argument's own `size` bytes, then the bytes that happen to follow
\* it, the last of them 0); index 0 is bytes[1].
ByteAt(str, i) == str.bytes[i + 1]

\* strnlen_s: [len, rd] with rd the set of indexes whose byte was read.
RECURSIVE strnlen_loop(_, _, _, _)
strnlen_loop(str, s, unbounded, maxsize) ==
  IF ByteAt(str, s) # NUL /\ (unbounded \/ maxsize > 0)
  THEN LET r == strnlen_loop(str, s + 1, unbounded, IF unbounded THEN maxsize ELSE maxsize - 1)
       IN  [len |-> r.len, rd |-> r.rd \cup {s}]
  ELSE [len |-> s, rd |-> {s}]

\* maxsize is data->precision, or (size_t)-1 when that is 0.
strnlen_s(str, precision) == strnlen_loop(str, 0, precision = 0, precision)

\* The pad loop with the test l++ <= data->width: one space too many.
RECURSIVE PadLoopInclusive(_, _)
PadLoopInclusive(m, l) ==
  IF l <= m.d.width THEN PadLoopInclusive(do_out(m, cSpace), l + 1) ELSE m

\* while (l++ < data->width) out(' ')
RECURSIVE PadLoop(_, _)
PadLoop(m, l) == IF l < m.d.width THEN PadLoop(do_out(m, cSpace), l + 1) ELSE m

\* Lines 462-466: the string output loop from index i on.
RECURSIVE StringLoop(_, _, _)
StringLoop(m, str, i) ==
  LET m0 == [m EXCEPT !.rd = @ \cup {i}]
  IN  IF ByteAt(str, i) # NUL
      THEN IF "PRECISION" \notin m.d.flags
           THEN StringLoop(do_out(m0, ByteAt(str, i)), str, i + 1)
           ELSE LET m1 == [m0 EXCEPT !.d.precision = (@ - 1) % 256]
                IN  IF m.d.precision # 0
                    THEN StringLoop(do_out(m1, ByteAt(str, i)), str, i + 1)
                    ELSE m1
      ELSE m0

print_string(m, str) ==
  LET n == strnlen_s(str, m.d.precision)
      l == IF "PRECISION" \in m.d.flags THEN Min(n.len, m.d.precision) ELSE n.len
      m0 == [m EXCEPT !.rd = @ \cup n.rd]
      m1 == IF "LEFT" \notin m.d.flags THEN PadLoop(m0, l) ELSE m0
      m2 == StringLoop(m1, str, 0)
  IN  IF "LEFT" \in m.d.flags THEN PadLoop(m2, l) ELSE m2

\* ------------------------------------------------------------------------
\* Directive scanner
\* ------------------------------------------------------------------------

is_digit(ch) == ch >= cZero /\ ch <= cNine

\* A magnitude below 10 * 2^32 + 10 reduced mod 2^32: the wrap of unsigned
\* int arithmetic.
RECURSIVE WrapUInt(_)
WrapUInt(v) == IF Geq(v, UIntModulus) THEN WrapUInt(Sub(v, UIntModulus)) ELSE v

\* atoi: [i, pos] after the digit run at pos, i the unsigned int as a
\* magnitude.  Line 193: i = i * 10U + digit, in unsigned int.
RECURSIVE atoi_loop(_, _, _)
atoi_loop(mem, pos, i) ==
  IF is_digit(mem[pos])
  THEN atoi_loop(mem, pos + 1, WrapUInt(Trim(i \o <<mem[pos] - cZero>>)))
  ELSE [i |-> i, pos |-> pos]
atoi(mem, pos) == atoi_loop(mem, pos, <<>>)

\* Lines 517-529: [flags, pos].
FlagOf(ch) ==
  IF ch = cZero THEN {"ZEROPAD"}
  ELSE IF ch = cMinus THEN {"LEFT"}
  ELSE IF ch = cPlus THEN {"PLUS"}
  ELSE IF ch = cSpace THEN {"SPACE"}
  ELSE IF ch = cHash THEN {"HASH"}
  ELSE {}

RECURSIVE ParseFlags(_, _, _)
ParseFlags(mem, pos, flags) ==
  IF FlagOf(mem[pos]) # {} THEN ParseFlags(mem, pos + 1, flags \cup FlagOf(mem[pos]))
  ELSE [flags |-> flags, pos |-> pos]

\* Lines 543 and 547: (unsigned int)-w for w < 0 and (unsigned int)w
\* otherwise, as a magnitude.  For w = INT_MIN the negation overflows int:
\* where it wraps the result is 2^31, the magnitude of w (the other outcome
\* is WidthTrapStep).
IntAbs(arg) == arg.mag

\* The width of the directive whose fields start at pos is '*' and its
\* argument is INT_MIN.
NegatesIntMin(mem, va, pos, vai) ==
  LET f == ParseFlags(mem, pos, {})
  IN  /\ mem[f.pos] = cStar
      /\ vai <= Len(va)
      /\ va[vai].neg
      /\ va[vai].mag = IntMinMag

\* Lines 531-550: the width field.  s is [flags, pos, vai, width, precision].
ParseWidth(mem, va, s) ==
  IF is_digit(mem[s.pos])
  THEN LET a == atoi(mem, s.pos) IN [s EXCEPT !.width = ModSmall(a.i, 256), !.pos = a.pos]
  ELSE IF mem[s.pos] = cStar
  THEN LET w == va[s.vai]
       IN  [s EXCEPT !.width = ModSmall(IntAbs(w), 256),
                     !.flags = IF w.neg THEN @ \cup {"LEFT"} ELSE @,
                     !.vai = @ + 1, !.pos = @ + 1]
  ELSE s

\* Lines 552-568: the precision field.
ParsePrecision(mem, va, s) ==
  IF mem[s.pos] = cDot
  THEN LET s1 == [s EXCEPT !.flags = @ \cup {"PRECISION"}, !.pos = @ + 1]
       IN  IF is_digit(mem[s1.pos])
           THEN LET a == atoi(mem, s1.pos)
                IN  [s1 EXCEPT !.precision = ModSmall(a.i, 256), !.pos = a.pos]
           ELSE IF mem[s1.pos] = cStar
           THEN LET prec == va[s1.vai]
                IN  [s1 EXCEPT !.precision = IF prec.neg THEN 0 ELSE ModSmall(prec.mag, 256),
                               !.vai = @ + 1, !.pos = @ + 1]
           ELSE s1
  ELSE s

\* The flag of the platform-width modifiers t, j, z.
PlatformLong == IF LongIsLongLong THEN {"LONG"} ELSE {"LONG_LONG"}

\* Lines 570-611: the length field.
ParseLength(mem, s) ==
  IF mem[s.pos] = cLowerL
  THEN IF mem[s.pos + 1] = cLowerL
       THEN [s EXCEPT !.flags = @ \cup {"LONG", "LONG_LONG"}, !.pos = @ + 2]
       ELSE [s EXCEPT !.flags = @ \cup {"LONG"}, !.pos = @ + 1]
  ELSE IF mem[s.pos] = cLowerH
  THEN IF mem[s.pos + 1] = cLowerH
       THEN [s EXCEPT !.flags = @ \cup {"SHORT", "CHAR"}, !.pos = @ + 2]
       ELSE [s EXCEPT !.flags = @ \cup {"SHORT"}, !.pos = @ + 1]
  ELSE IF mem[s.pos] \in {cLowerT, cLowerJ, cLowerZ}
  THEN [s EXCEPT !.flags = @ \cup PlatformLong, !.pos = @ + 1]
  ELSE s

\* Lines 513-611: from the character after '%' to the conversion specifier.
ParseFields(mem, va, pos, vai) ==
  LET f == ParseFlags(mem, pos, {})
      s0 == [flags |-> f.flags, pos |-> f.pos, vai |-> vai, width |-> 0, precision |-> 0]
  IN  ParseLength(mem, ParsePrecision(mem, va, ParseWidth(mem, va, s0)))

\* ------------------------------------------------------------------------
\* Argument cursor
\* ------------------------------------------------------------------------

\* An integer argument is [neg, mag]: its sign and its magnitude.
IntArg(n) == [neg |-> FALSE, mag |-> Dec(n)]
NegArg(n) == [neg |-> TRUE, mag |-> Dec(n)]
Big(v) == [neg |-> FALSE, mag |-> v]
BigNeg(v) == [neg |-> TRUE, mag |-> v]

\* The value of a two's complement bit pattern `low` of `bits` bits as signed.
AsSigned(low, modulus) ==
  IF low >= modulus \div 2 THEN NegArg(modulus - low) ELSE IntArg(low)

\* The low bits of an int argument: arg mod modulus.
LowBits(arg, modulus) ==
  LET r == ModSmall(arg.mag, modulus)
  IN  IF arg.neg THEN (modulus - r) % modulus ELSE r

\* Line 681: the int argument narrowed by the length flags.
SignedValue(flags, arg) ==
  IF "CHAR" \in flags
  THEN IF CharIsSigned THEN AsSigned(LowBits(arg, 256), 256) ELSE IntArg(LowBits(arg, 256))
  ELSE IF "SHORT" \in flags THEN AsSigned(LowBits(arg, 65536), 65536)
  ELSE arg

\* Line 708: the unsigned int argument narrowed by the length flags.
UnsignedValue(flags, arg) ==
  IF "CHAR" \in flags THEN Dec(LowBits(arg, 256))
  ELSE IF "SHORT" \in flags THEN Dec(LowBits(arg, 65536))
  ELSE arg.mag

\* Lines 663, 672, 690, 699: the argument is read as a long or a long long.
IsLongArg(flags) == flags \cap {"LONG", "LONG_LONG"} # {}

\* The most negative value of the type the length flags select: ABS negates
\* it in that type, which overflows.
IsMostNegative(flags, v) ==
  v.neg /\ v.mag = (IF IsLongArg(flags) THEN LLongMinMag ELSE IntMinMag)

\* ABS(value) converted to the unsigned parameter of pre_format / ntoa.  The
\* negation of the most negative value is undefined: it wraps to the value
\* itself, which an int then sign-extends into the unsigned long, or it is
\* computed in the wider type.
AbsOutcomes(flags, v) ==
  IF IsMostNegative(flags, v)
  THEN IF IsLongArg(flags) THEN {LLongMinMag}
       ELSE {IntMinAsULong, IntMinMag}
  ELSE {v.mag}

\* ------------------------------------------------------------------------
\* Conversions
\* ------------------------------------------------------------------------

IntegerSpecifiers == {cLowerD, cLowerI, cLowerU, cLowerX, cUpperX, cLowerO, cLowerB}
SignedSpecifiers == {cLowerD, cLowerI}

\* Lines 623-657: base and flags of an integer conversion.
IntegerSetup(d, ch) ==
  LET base == IF ch \in {cLowerX, cUpperX} THEN "HEX"
              ELSE IF ch = cLowerO THEN "OCTAL"
              ELSE IF ch = cLowerB THEN "BINARY"
              ELSE "DECIMAL"
      f1 == IF base = "DECIMAL" THEN d.flags \ {"HASH"} ELSE d.flags
      f2 == IF ch = cUpperX THEN f1 \cup {"UPPERCASE"} ELSE f1
      f3 == IF ch \notin SignedSpecifiers THEN f2 \ {"PLUS", "SPACE"} ELSE f2
      f4 == IF "PRECISION" \in f3 THEN f3 \ {"ZEROPAD"} ELSE f3
  IN  [d EXCEPT !.base = base, !.flags = f4]

\* pre_format, ntoa_format and ntoa at the width the flags select
\* (lines 663-712).
ConvertLongLong(m, value, negative) ==
  ntoa_long_long(ntoa_format([m EXCEPT !.d = pre_format_long_long(@, value, negative)]), value)

ConvertLong(m, value, negative) ==
  ntoa_long(ntoa_format([m EXCEPT !.d = pre_format_long(@, value, negative)]), value)

ConvertInteger(m, value, negative) ==
  IF "LONG_LONG" \in m.d.flags THEN ConvertLongLong(m, value, negative)
  ELSE ConvertLong(m, value, negative)

\* Lines 717-740: the %c conversion.
ConvertChar(m, arg) ==
  LET c == LowBits(arg, 256)
  IN  IF "LEFT" \notin m.d.flags
      THEN do_out(PadLoop(m, 1), c)
      ELSE PadLoop(do_out(m, c), 1)

\* Lines 747-773: the %p conversion.
PointerSetup(d) ==
  [d EXCEPT !.width = SizeofVoidPtr * 2, !.flags = @ \cup {"ZEROPAD", "UPPERCASE"},
            !.base = "HEX"]

ConvertPointer(m, value) ==
  LET m0 == [m EXCEPT !.d = PointerSetup(@)]
  IN  IF LongIsLongLong THEN ConvertLongLong(m0, value, FALSE)
      ELSE ConvertLong(m0, value, FALSE)

\* Lines 824 and 840: the offset of the terminator from data.buffer.
\* TerminatorOffsetZero is the store at data.buffer[0] whatever maxlen is.
TerminatorOffsetZero(maxlen) == 0
TerminatorOffset(maxlen) == IF maxlen # <<>> THEN 0 ELSE -1

\* Lines 823-824 and 839-840 on the sink s of a call with capacity count.
Terminate(s, count) ==
  IF ~s.null /\ count > 0
  THEN Store(s, s.wp + TerminatorOffset(s.maxlen), NUL)
  ELSE s

\* Line 811 of sprintf_: *data.buffer = 0, whatever was stored.
TerminateUnbounded(s) == Store(s, s.wp, NUL)

\* ------------------------------------------------------------------------
\* State
\* ------------------------------------------------------------------------

\* The calls that can be in progress at the same time.
Procs == {1, 2}

VARIABLES
  call,   \* per call: format memory, cursor, arguments, position in format_out
  data,   \* the data_t objects, one per stack frame of format_out
  sink,   \* the sprintf_data_t objects, one per call of snprintf_ / sprintf_
  console \* the characters handed to _putchar so far

vars == <<call, data, sink, console>>

\* Line 495: the data_t that call p works on is an automatic variable of its
\* own invocation.  DataStatic is the declaration with static storage: one
\* object for all calls.
DataStatic(p) == 1
DataOf(p) == p

\* ------------------------------------------------------------------------
\* Inputs
\* ------------------------------------------------------------------------

\* A call of snprintf_(buffer, count, fmt, va...).  The format memory is fmt,
\* its terminator, and then `tail`: the bytes that happen to follow it.
Input(fmt, tail, va, count, null) ==
  [fn |-> "snprintf_", fmt |-> fmt, tail |-> tail, va |-> va, count |-> count,
   null |-> null]

\* The same format and arguments given to sprintf_(buffer, fmt, va...), the
\* buffer a region of in.count bytes, and to printf_(fmt, va...).
Sprintf(in) == [in EXCEPT !.fn = "sprintf_"]
Printf(in) == [in EXCEPT !.fn = "printf_", !.count = 0, !.null = TRUE]

\* Lines 797, 806, 818, 837: the sprintf_data_t of a call, { buffer, count }
\* in snprintf_ and { buffer, -1 } in sprintf_; printf_ has none and passes a
\* null ptr.
SinkOf(fn, count, null) ==
  IF fn = "sprintf_" THEN NewSink(count, SizeMax, null)
  ELSE IF fn = "printf_" THEN NewSink(0, <<>>, TRUE)
  ELSE NewSink(count, Dec(count), null)

NoCall == Input(<<>>, <<>>, <<>>, 0, TRUE)

NewCall(in, pc, p) ==
  [fn |-> in.fn, ctx |-> p, mem |-> in.fmt \o <<NUL>> \o in.tail, term |-> Len(in.fmt) + 1,
   va |-> in.va, vai |-> 1, pos |-> 1, pc |-> pc, ret |-> 0, count |-> in.count,
   emitted |-> <<>>, nulout |-> FALSE, strread |-> {}]

NewData == [out |-> "out_sprintf", flags |-> {}, idx |-> 0, width |-> 0, precision |-> 0,
            base |-> "DECIMAL", digit_count |-> 0, ptr |-> 1]

InitWith(in1, in2) ==
  /\ call = [p \in Procs |-> IF p = 1 THEN NewCall(in1, "call", p)
                             ELSE NewCall(in2, IF in2 = NoCall THEN "idle" ELSE "call", p)]
  /\ data = [f \in Procs |-> NewData]
  /\ sink = [p \in Procs |-> IF p = 1 THEN SinkOf(in1.fn, in1.count, in1.null)
                             ELSE SinkOf(in2.fn, in2.count, in2.null)]
  /\ console = <<>>

\* ------------------------------------------------------------------------
\* The steps of one call of snprintf_ / vsnprintf_.  Each takes the machine m
\* the call works on and the call's record c and gives the set of outcomes
\* [m, c] of the step, empty when the call is not at that step.
\* ------------------------------------------------------------------------

\* An outcome: the characters and reads of the step are added to the record.
Outcome(m, c) ==
  [m |-> [m EXCEPT !.em = <<>>, !.rd = {}],
   c |-> [c EXCEPT !.emitted = @ \o m.em, !.strread = @ \cup m.rd]]

AtFormat(c) == c.pc = "scan" /\ c.pos <= Len(c.mem)
AtSpecifier(c) == c.pc = "conv"
Cur(c) == c.mem[c.pos]
NextArg(c) == c.va[c.vai]
Consumed(c) == [c EXCEPT !.pos = @ + 1, !.vai = @ + 1, !.pc = "scan"]

\* Lines 497-499: format_out starts on its data_t.
EnterStep(m, c) ==
  IF c.pc = "call"
  THEN {Outcome([m EXCEPT !.d.out = IF c.fn = "printf_" THEN "out_char" ELSE "out_sprintf",
                          !.d.ptr = IF c.fn = "printf_" THEN 0 ELSE c.ctx,
                          !.d.idx = 0],
                [c EXCEPT !.pc = "scan"])}
  ELSE {}

\* Lines 504-509: a literal character.
LiteralStep(m, c) ==
  IF AtFormat(c) /\ Cur(c) \notin {NUL, cPercent}
  THEN {Outcome(do_out(m, Cur(c)), [c EXCEPT !.pos = @ + 1])}
  ELSE {}

\* Lines 510-611: a '%' and the fields up to the conversion specifier.
DirectiveStep(m, c) ==
  IF AtFormat(c) /\ Cur(c) = cPercent
  THEN LET s == ParseFields(c.mem, c.va, c.pos + 1, c.vai)
       IN  {Outcome([m EXCEPT !.d.flags = s.flags, !.d.width = s.width,
                              !.d.precision = s.precision],
                    [c EXCEPT !.pos = s.pos, !.vai = s.vai, !.pc = "conv"])}
  ELSE {}

\* Line 543 in a build that traps on signed overflow: -w for w = INT_MIN.
WidthTrapStep(m, c) ==
  IF AtFormat(c) /\ Cur(c) = cPercent /\ NegatesIntMin(c.mem, c.va, c.pos + 1, c.vai)
  THEN {Outcome(m, [c EXCEPT !.pc = "fault"])}
  ELSE {}

\* Lines 616-715: d, i, u, x, X, o, b.
IntegerStep(m, c) ==
  IF AtSpecifier(c) /\ Cur(c) \in IntegerSpecifiers
  THEN LET m0 == [m EXCEPT !.d = IntegerSetup(@, Cur(c))]
       IN  IF Cur(c) \in SignedSpecifiers
           THEN LET v == IF IsLongArg(m0.d.flags) THEN NextArg(c)
                         ELSE SignedValue(m0.d.flags, NextArg(c))
                IN  {Outcome(ConvertInteger(m0, a, v.neg), Consumed(c)) :
                       a \in AbsOutcomes(m0.d.flags, v)}
           ELSE LET v == IF IsLongArg(m0.d.flags) THEN NextArg(c).mag
                         ELSE UnsignedValue(m0.d.flags, NextArg(c))
                IN  {Outcome(ConvertInteger(m0, v, FALSE), Consumed(c))}
  ELSE {}

\* ABS of the most negative value in a build that traps on signed overflow.
AbsTrapStep(m, c) ==
  IF /\ AtSpecifier(c)
     /\ Cur(c) \in SignedSpecifiers
     /\ LET f == IntegerSetup(m.d, Cur(c)).flags
        IN  IsMostNegative(f, IF IsLongArg(f) THEN NextArg(c)
                              ELSE SignedValue(f, NextArg(c)))
  THEN {Outcome(m, [c EXCEPT !.pc = "fault"])}
  ELSE {}

\* Lines 717-740.
CharStep(m, c) ==
  IF AtSpecifier(c) /\ Cur(c) = cLowerC
  THEN {Outcome(ConvertChar(m, NextArg(c)), Consumed(c))}
  ELSE {}

\* Lines 742-745.
StringStep(m, c) ==
  IF AtSpecifier(c) /\ Cur(c) = cLowerS
  THEN {Outcome(print_string(m, NextArg(c)), Consumed(c))}
  ELSE {}

\* Lines 747-773.
PointerStep(m, c) ==
  IF AtSpecifier(c) /\ Cur(c) = cLowerP
  THEN {Outcome(ConvertPointer(m, NextArg(c).mag), Consumed(c))}
  ELSE {}

\* Lines 775-778.
PercentStep(m, c) ==
  IF AtSpecifier(c) /\ Cur(c) = cPercent
  THEN {Outcome(do_out(m, cPercent), [c EXCEPT !.pos = @ + 1, !.pc = "scan"])}
  ELSE {}

\* Lines 780-784: any other character, the terminator included.
DefaultStep(m, c) ==
  IF /\ AtSpecifier(c)
     /\ Cur(c) \notin IntegerSpecifiers \cup {cLowerC, cLowerS, cLowerP, cPercent}
  THEN {Outcome(do_out(m, Cur(c)),
                [c EXCEPT !.pos = @ + 1, !.pc = "scan", !.nulout = @ \/ Cur(c) = NUL])}
  ELSE {}

\* Lines 501 and 788, then the caller: the loop ends at a 0 byte and
\* format_out returns data.idx.  snprintf_ / vsnprintf_ (823-825, 839-841)
\* store the terminator through their sprintf_data_t; sprintf_ (811-812) stores
\* it unconditionally, through a null buffer too (a fault), and after stores
\* outside the caller's region the call returns or faults; printf_ / vprintf_
\* (800, 831) return.
ReturnStep(m, c) ==
  IF AtFormat(c) /\ Cur(c) = NUL
  THEN LET done == [c EXCEPT !.pc = "done", !.ret = m.d.idx]
           fault == [c EXCEPT !.pc = "fault"]
       IN  IF c.fn = "printf_" THEN {Outcome(m, done)}
           ELSE IF c.fn = "sprintf_"
           THEN IF m.sk[c.ctx].null THEN {Outcome(m, fault)}
                ELSE LET m1 == [m EXCEPT !.sk[c.ctx] = TerminateUnbounded(@)]
                     IN  {Outcome(m1, done)}
                         \cup (IF m1.sk[c.ctx].writes \subseteq 0..(c.count - 1) THEN {}
                               ELSE {Outcome(m1, fault)})
           ELSE {Outcome([m EXCEPT !.sk[c.ctx] = Terminate(@, c.count)], done)}
  ELSE {}

\* Line 501 with format beyond the mapped bytes after the string.
FaultStep(m, c) ==
  IF c.pc = "scan" /\ c.pos > Len(c.mem)
  THEN {Outcome(m, [c EXCEPT !.pc = "fault"])}
  ELSE {}

\* Lines 492-789 with 816-826: every outcome of the next step of a call.
AllSteps(m, c) ==
  EnterStep(m, c) \cup LiteralStep(m, c) \cup DirectiveStep(m, c)
  \cup WidthTrapStep(m, c) \cup IntegerStep(m, c)
  \cup AbsTrapStep(m, c) \cup CharStep(m, c) \cup StringStep(m, c) \cup PointerStep(m, c)
  \cup PercentStep(m, c) \cup DefaultStep(m, c) \cup ReturnStep(m, c) \cup FaultStep(m, c)

\* ------------------------------------------------------------------------
\* Actions
\* ------------------------------------------------------------------------

Machine(p) ==
  [d |-> data[DataOf(p)], sk |-> sink, con |-> console, em |-> <<>>, rd |-> {}]

\* Call p takes one of the outcomes.
Take(p, outcomes) ==
  \E r \in outcomes :
     /\ data' = [data EXCEPT ![DataOf(p)] = r.m.d]
     /\ sink' = r.m.sk
     /\ console' = r.m.con
     /\ call' = [call EXCEPT ![p] = r.c]

Enter(p) == Take(p, EnterStep(Machine(p), call[p]))
ScanLiteral(p) == Take(p, LiteralStep(Machine(p), call[p]))
ParseDirective(p) == Take(p, DirectiveStep(Machine(p), call[p]))
WidthTrap(p) == Take(p, WidthTrapStep(Machine(p), call[p]))
ConvInteger(p) == Take(p, IntegerStep(Machine(p), call[p]))
AbsTrap(p) == Take(p, AbsTrapStep(Machine(p), call[p]))
ConvChar(p) == Take(p, CharStep(Machine(p), call[p]))
ConvString(p) == Take(p, StringStep(Machine(p), call[p]))
ConvPointer(p) == Take(p, PointerStep(Machine(p), call[p]))
ConvPercent(p) == Take(p, PercentStep(Machine(p), call[p]))
ConvDefault(p) == Take(p, DefaultStep(Machine(p), call[p]))
Return(p) == Take(p, ReturnStep(Machine(p), call[p]))
Fault(p) == Take(p, FaultStep(Machine(p), call[p]))

Step(p) ==
  \/ Enter(p)
  \/ ScanLiteral(p)
  \/ ParseDirective(p)
  \/ WidthTrap(p)
  \/ ConvInteger(p)
  \/ AbsTrap(p)
  \/ ConvChar(p)
  \/ ConvString(p)
  \/ ConvPointer(p)
  \/ ConvPercent(p)
  \/ ConvDefault(p)
  \/ Return(p)
  \/ Fault(p)

Next == \E p \in Procs : Step(p)

\* ------------------------------------------------------------------------
\* The calls explored
\* ------------------------------------------------------------------------

MaxCap == 3      \* sink capacities 0..MaxCap
MaxWidth == 4    \* field widths written in the directives
MaxPrec == 3     \* precisions written in the directives

RECURSIVE DecChars(_)
DecChars(n) ==
  IF n < 10 THEN <<cZero + n>> ELSE DecChars(n \div 10) \o <<cZero + (n % 10)>>

Directive(flags, width, prec, len, conv) ==
  <<cPercent>> \o flags \o width \o prec \o len \o <<conv>>

\* The flag characters of a set of flags.
FlagChars == <<cMinus, cZero, cPlus, cSpace, cHash>>
FlagSeq(S) == SelectSeq(FlagChars, LAMBDA c : c \in S)
AllFlagSeqs == {FlagSeq(S) : S \in SUBSET {cMinus, cZero, cPlus, cSpace, cHash}}
SomeFlagSeqs == {<<>>, <<cMinus>>, <<cZero>>, <<cHash>>, <<cPlus>>, <<cMinus, cHash>>}

NoField == <<>>
Widths == {NoField, DecChars(MaxWidth)}
Precisions == {<<cDot>>} \cup {<<cDot>> \o DecChars(n) : n \in 0..MaxPrec}
Lengths == {NoField, Str(<<"h", "h">>), Str(<<"h">>), Str(<<"l">>), Str(<<"l", "l">>),
            Str(<<"j">>), Str(<<"z">>), Str(<<"t">>)}
LongLengths == Lengths \ {NoField, Str(<<"h", "h">>), Str(<<"h">>)}

\* Arguments of each type.
SmallSigned == {IntArg(0), IntArg(7), NegArg(42)}
SmallUnsigned == {IntArg(0), IntArg(7), IntArg(300)}
IntArgs == SmallSigned \cup {IntArg(300), NegArg(129), Big(IntMax), BigNeg(IntMinMag)}
UIntArgs == SmallUnsigned \cup {IntArg(65536), Big(UIntMax)}
LongArgs == SmallSigned \cup {Big(Pow10(10)), Big(LLongMax), BigNeg(LLongMinMag)}
ULongArgs == SmallUnsigned \cup {Big(Sub(Pow10(10), Dec(1))), Big(Pow10(10)), Big(ULLongMax)}
PointerArgs == {IntArg(0), IntArg(4660), Big(ULLongMax)}

SmallArgs(conv) == IF conv \in SignedSpecifiers THEN SmallSigned ELSE SmallUnsigned
TypedArgs(conv, len) ==
  IF len \in LongLengths
  THEN IF conv \in SignedSpecifiers THEN LongArgs ELSE ULongArgs
  ELSE IF conv \in SignedSpecifiers THEN IntArgs ELSE UIntArgs

\* Arguments that are 0 once narrowed to the type of the length modifier.
ZeroArgs(len) ==
  IF len = Str(<<"h", "h">>) THEN {IntArg(0), IntArg(256)}
  ELSE IF len = Str(<<"h">>) THEN {IntArg(0), IntArg(65536)}
  ELSE {IntArg(0)}

\* A string argument of `own` bytes followed in memory by `after`.
StrArg(own, after) == [bytes |-> own \o after, size |-> Len(own)]
CString(text) == StrArg(text \o <<NUL>>, <<>>)

One(fmt, arg) == Input(fmt, <<>>, <<arg>>, MaxCap, FALSE)

\* Integer directives: every flag set, with and without a width.
FlagInputs ==
  {One(Directive(f, w, NoField, NoField, c), a) :
     f \in AllFlagSeqs, w \in Widths, c \in IntegerSpecifiers, a \in {IntArg(0), IntArg(7)}}
  \cup {One(Directive(f, w, NoField, NoField, c), NegArg(42)) :
     f \in AllFlagSeqs, w \in Widths, c \in SignedSpecifiers}

\* Integer directives with a precision.
PrecisionInputs ==
  UNION {{One(Directive(f, w, p, NoField, c), a) : a \in SmallArgs(c)} :
     f \in SomeFlagSeqs, w \in Widths, p \in Precisions, c \in IntegerSpecifiers}

\* Integer directives of every length class, over the range of its type.
LengthInputs ==
  UNION {{One(Directive(f, NoField, NoField, l, c), a) : a \in TypedArgs(c, l)} :
     f \in {<<>>, <<cMinus>>}, l \in Lengths, c \in IntegerSpecifiers}

\* Precision 0 applied to the value 0.
ZeroInputs ==
  UNION {{One(Directive(f, w, <<cDot>>, l, c), a) : a \in ZeroArgs(l)} :
     f \in AllFlagSeqs, w \in Widths, l \in Lengths, c \in IntegerSpecifiers}
  \cup {One(Directive(f, NoField, <<cDot, cZero>>, l, c), IntArg(0)) :
     f \in SomeFlagSeqs, l \in Lengths, c \in IntegerSpecifiers}

\* Width and precision taken from the arguments.
StarInputs ==
  {Input(Directive(<<>>, <<cStar>>, NoField, NoField, c), <<>>, <<w, a>>, MaxCap, FALSE) :
     w \in {IntArg(0), IntArg(MaxWidth), NegArg(MaxWidth), BigNeg(IntMinMag)},
     c \in {cLowerD, cLowerX},
     a \in SmallUnsigned}
  \cup
  {Input(Directive(f, <<cStar>>, <<cDot, cStar>>, NoField, c), <<>>, <<IntArg(MaxWidth), p,
         IntArg(0)>>, MaxCap, FALSE) :
     f \in SomeFlagSeqs, p \in {IntArg(0), NegArg(1), IntArg(2)}, c \in IntegerSpecifiers}

\* Pointers.
PointerInputs ==
  {One(Directive(f, w, p, NoField, cLowerP), a) :
     f \in AllFlagSeqs, w \in Widths, p \in {NoField, <<cDot>> \o DecChars(MaxPrec)},
     a \in PointerArgs}

\* Characters; four fields of WideField characters take the uint8_t counter
\* past 255.
WideField == 64
CharInputs ==
  {One(Directive(f, w, NoField, NoField, cLowerC), a) :
     f \in {<<>>, <<cMinus>>},
     w \in Widths \cup {DecChars(1), DecChars(WideField)},
     a \in {IntArg(Ord("A")), IntArg(0)}}
  \cup {Input(c \o c \o c \o c \o lit, <<>>, [i \in 1..4 |-> IntArg(Ord("A"))], MaxCap, FALSE) :
          c \in {Directive(<<>>, DecChars(WideField), NoField, NoField, cLowerC)},
          lit \in {<<>>, Str(<<"b">>)}}

\* Strings: terminated ones, and ones that hold exactly `precision` bytes and
\* no terminator, followed in memory by other bytes.
Texts == {<<>>, Str(<<"a">>), Str(<<"h", "e", "l", "l", "o">>)}
Followers == {<<NUL>>, Str(<<"Z">>) \o <<NUL>>}
StringInputs ==
  {One(Directive(f, w, p, NoField, cLowerS), CString(t)) :
     f \in {<<>>, <<cMinus>>}, w \in Widths \cup {DecChars(1), DecChars(MaxWidth + 3)},
     p \in Precisions \cup {NoField}, t \in Texts}
  \cup
  {One(Directive(f, w, <<cDot>> \o DecChars(n), NoField, cLowerS),
       StrArg([i \in 1..n |-> cLowerA + i], after)) :
     f \in {<<>>, <<cMinus>>}, w \in Widths, n \in 0..MaxPrec, after \in Followers}
  \cup
  {One(Directive(<<>>, NoField, <<cDot>>, NoField, cLowerS), StrArg(<<>>, after)) :
     after \in Followers}

\* An unsigned long of twelve decimal digits, 240 * 10^9, in a field of
\* twelve, right- and left-justified.
WideLongInputs ==
  {One(Directive(f, DecChars(12), NoField, <<cLowerL>>, cLowerU),
       Big(Dec(24) \o [i \in 1..10 |-> 0])) : f \in {<<>>, <<cMinus>>}}

\* Formats that end inside a directive, and what follows them in memory.
Tails == {<<>>, <<NUL>>, Str(<<"A">>) \o <<NUL>>, Str(<<"%">>) \o <<NUL>>}
TruncatedFormats ==
  {Str(<<"%">>), Str(<<"%", "5">>), Str(<<"%", "-">>), Str(<<"%", ".">>),
   Str(<<"%", "l">>), Str(<<"%", "l", "l">>), Str(<<"%", "h">>), Str(<<"%", ".", "3">>),
   Str(<<"a", "%">>), Str(<<"%", "d", "%">>), Str(<<"%", "0", "5", ".", "2", "h", "h">>)}
WholeFormats ==
  {<<>>, Str(<<"a">>), Str(<<"a", "b", "c", "d", "e">>), Str(<<"%", "%">>),
   Str(<<"%", "q">>), Str(<<"%", "5", "q">>), Str(<<"x", "=", "%", "d", ";">>),
   Str(<<"%", "d", "%", "d">>), Str(<<"%", "-", "3", "d", "|">>)}
ScanInputs ==
  {Input(fmt, tail, <<IntArg(7), IntArg(300)>>, MaxCap, FALSE) :
     fmt \in TruncatedFormats \cup WholeFormats, tail \in Tails}

\* Every capacity, with outputs shorter and longer than it.
SinkFormats ==
  WholeFormats \cup
  {Str(<<"%", "c">>), Str(<<"%", "3", "c">>), Str(<<"%", "x">>), Str(<<"%", "-", "4", "d">>),
   Str(<<"%", "0", "4", "d">>), Str(<<"a", "%", "c", "b">>), Str(<<"%">>)}
SinkInputs ==
  {Input(fmt, <<NUL>>, <<a, IntArg(300)>>, n, null) :
     fmt \in SinkFormats, a \in SmallUnsigned, n \in 0..MaxCap,
     null \in BOOLEAN}

\* sprintf_ with a region that holds the output and with one too small for
\* it, with a null buffer, and printf_.
EntryFormats ==
  {Str(<<"a">>), Str(<<"a", "b", "c", "d", "e">>), Str(<<"%", "d">>), Str(<<"%", "-", "4", "d">>),
   Str(<<"%", "c", "b">>), Str(<<"%", "x", "%", "c">>), Str(<<"%">>), <<>>}
EntryInputs ==
  UNION {{Sprintf(Input(fmt, <<NUL>>, <<a, IntArg(0)>>, n, null)),
          Printf(Input(fmt, <<NUL>>, <<a, IntArg(0)>>, n, null))} :
     fmt \in EntryFormats, a \in {IntArg(0), IntArg(12345)}, n \in {0, MaxCap, 2 * MaxCap},
     null \in BOOLEAN}

Inputs ==
  EntryInputs \cup FlagInputs \cup PrecisionInputs \cup LengthInputs \cup ZeroInputs \cup StarInputs
  \cup PointerInputs \cup CharInputs \cup StringInputs \cup ScanInputs \cup SinkInputs
  \cup WideLongInputs

\* ------------------------------------------------------------------------
\* Specifications
\* ------------------------------------------------------------------------

\* One call of snprintf_.
Init == \E in \in Inputs : InitWith(in, NoCall)

Spec == Init /\ [][Next]_vars

\* Two calls of snprintf_ in progress at the same time, each with its own
\* sink context, their steps interleaved in every order.
ConcCap == 2
ConcInputs ==
  {Input(Str(<<"a", "%", "d">>), <<>>, <<IntArg(7)>>, ConcCap, FALSE),
   Input(Str(<<"%", "d">>), <<>>, <<BigNeg(IntMinMag)>>, ConcCap, FALSE),
   Input(Str(<<"%", "-", "3", "c", "|">>), <<>>, <<IntArg(Ord("A"))>>, ConcCap, FALSE),
   Input(Str(<<"%", ".", "1", "s">>), <<>>, <<CString(Str(<<"h", "i">>))>>, ConcCap, FALSE),
   Input(Str(<<"%", "#", "6", "x">>), <<>>, <<IntArg(255)>>, ConcCap, FALSE),
   Input(Str(<<"%", "p">>), <<>>, <<IntArg(4660)>>, ConcCap, FALSE),
   Input(Str(<<"%", "%", "%", "q">>), <<>>, <<>>, ConcCap, FALSE),
   Input(Str(<<"%", "*", "d">>), <<>>, <<BigNeg(IntMinMag), IntArg(7)>>, ConcCap, FALSE),
   Input(Str(<<"%">>), <<>>, <<>>, ConcCap, FALSE)}

InitConc == \E in1 \in ConcInputs : \E in2 \in ConcInputs : InitWith(in1, in2)

SpecConc == InitConc /\ [][Next]_vars

\* ------------------------------------------------------------------------
\* Properties
\* ------------------------------------------------------------------------

\* The fields, the specifier and the argument of the directive that opens the
\* format of call c.
Dir(c) == ParseFields(c.mem, c.va, 2, 1)
DirConv(c) == c.mem[Dir(c).pos]
DirArg(c) == c.va[Dir(c).vai]

\* Call c has just rendered the directive that opens its format: c.emitted is
\* what that directive emitted.
Rendered(c) ==
  /\ c.mem[1] = cPercent
  /\ c.pc = "scan"
  /\ c.pos = Dir(c).pos + 1
  /\ c.pos <= c.term

UnsignedSpecifiers == IntegerSpecifiers \ SignedSpecifiers
DirBase(c) == IntegerSetup(NewData, DirConv(c)).base

\* The magnitude of the value an integer directive renders.
DirMagnitude(c) ==
  LET f == Dir(c).flags
  IN  IF IsLongArg(f) THEN DirArg(c).mag
      ELSE IF DirConv(c) \in SignedSpecifiers THEN SignedValue(f, DirArg(c)).mag
      ELSE UnsignedValue(f, DirArg(c))

\* The number of digits of a value in a base: at least one.
DigitsOf(v, base) == MAX(get_digits_long_long(v, base), 1)

DecimalDigitChars == cZero..cNine
DigitChars(base) ==
  IF base = "BINARY" THEN {cZero, cZero + 1}
  ELSE IF base = "OCTAL" THEN cZero..(cZero + 7)
  ELSE IF base = "DECIMAL" THEN DecimalDigitChars
  ELSE DecimalDigitChars \cup cLowerA..(cLowerA + 5) \cup cUpperA..(cUpperA + 5)
UpperHexDigitChars == DecimalDigitChars \cup cUpperA..(cUpperA + 5)

CountIn(seq, S) == Cardinality({i \in 1..Len(seq) : seq[i] \in S})

\* C1: every character handed to the sink increments data.idx by one, so a
\* call that emits at most 255 characters returns the number of characters
\* emitted, whatever the capacity of its sink.
C1_ReturnCountsEmitted ==
  \A p \in Procs :
    LET c == call[p]
    IN  c.pc \in {"scan", "conv", "done"} /\ Len(c.emitted) <= 255
        => /\ data[DataOf(p)].idx = Len(c.emitted)
           /\ c.pc = "done" => c.ret = Len(c.emitted)

\* C2: snprintf_ with a non-null buffer of capacity n writes no byte outside
\* buffer[0..n-1], nothing at all when n = 0, and once the call has returned with
\* n > 0 the terminator is at min(k, n-1) after the first min(k, n-1) of the
\* k emitted characters.
C2_SinkBounded ==
  \A p \in Procs :
    LET c == call[p]
        n == c.count
        t == Min(Len(c.emitted), n - 1)
    IN  c.pc # "idle" /\ c.fn = "snprintf_" /\ ~sink[p].null
        => /\ sink[p].writes \subseteq 0..(n - 1)
           /\ sink[p].buffer[-1] = cFill
           /\ sink[p].buffer[n] = cFill
           /\ c.pc = "done" /\ n > 0
              => /\ sink[p].buffer[t] = NUL
                 /\ \A i \in 0..(t - 1) : sink[p].buffer[i] = c.emitted[i + 1]

\* C2 witness: a call has returned after emitting more than its capacity.
C2_Truncated ==
  \E p \in Procs :
    /\ call[p].pc = "done"
    /\ call[p].fn = "snprintf_"
    /\ ~sink[p].null
    /\ call[p].count > 0
    /\ Len(call[p].emitted) > call[p].count

\* C3: an unsigned conversion without the left-justify flag, whose width w is
\* at least the number of digits of the value, emits exactly w characters,
\* with space padding and with zero padding.
C3_WidthExact ==
  \A p \in Procs :
    LET c == call[p]
    IN  /\ Rendered(c)
        /\ DirConv(c) \in UnsignedSpecifiers
        /\ Dir(c).flags \cap {"LEFT", "HASH", "PRECISION"} = {}
        /\ Dir(c).width >= DigitsOf(DirMagnitude(c), DirBase(c))
        => Len(c.emitted) = Dir(c).width

\* C4: an integer conversion with precision p >= 1 emits at least p digit
\* characters (the 0 of a radix prefix not counted), whatever the flags.
C4_PrecisionDigits ==
  \A p \in Procs :
    LET c == call[p]
    IN  /\ Rendered(c)
        /\ DirConv(c) \in IntegerSpecifiers
        /\ "PRECISION" \in Dir(c).flags
        /\ Dir(c).precision >= 1
        => LET prefix == /\ "HASH" \in Dir(c).flags
                         /\ DirBase(c) # "DECIMAL"
                         /\ DirMagnitude(c) # <<>>
           IN  CountIn(c.emitted, DigitChars(DirBase(c))) - (IF prefix THEN 1 ELSE 0)
                 >= Dir(c).precision

\* C5: %p emits exactly 2 * sizeof(void*) characters, all of them uppercase
\* hexadecimal digits, for every pointer and whatever the directive writes.
C5_PointerShape ==
  \A p \in Procs :
    LET c == call[p]
    IN  Rendered(c) /\ DirConv(c) = cLowerP
        => /\ Len(c.emitted) = 2 * SizeofVoidPtr
           /\ \A i \in 1..Len(c.emitted) : c.emitted[i] \in UpperHexDigitChars

\* C6: %d and %u of an int, long or long long value emit the decimal digits
\* of its magnitude, after a '-' when it is negative: parsing the characters
\* back as a decimal integer gives the value.
C6_DecimalRoundTrip ==
  \A p \in Procs :
    LET c == call[p]
    IN  /\ Rendered(c)
        /\ DirConv(c) \in {cLowerD, cLowerI, cLowerU}
        /\ Dir(c).flags \cap {"PLUS", "SPACE", "CHAR", "SHORT", "PRECISION"} = {}
        /\ Dir(c).width = 0
        => LET v == DirArg(c)
               body == IF v.neg /\ c.emitted # <<>> THEN Tail(c.emitted) ELSE c.emitted
           IN  /\ v.neg => c.emitted # <<>> /\ Head(c.emitted) = cMinus
               /\ Len(body) = MAX(Len(v.mag), 1)
               /\ \A i \in 1..Len(body) : body[i] \in DecimalDigitChars
               /\ Trim([i \in 1..Len(body) |-> body[i] - cZero]) = v.mag

\* C7: an integer conversion with precision 0 applied to the value 0 emits no
\* digit and no radix prefix: only pad spaces and, for d and i with the plus
\* flag, one '+'.
C7_ZeroPrecisionZero ==
  \A p \in Procs :
    LET c == call[p]
    IN  /\ Rendered(c)
        /\ DirConv(c) \in IntegerSpecifiers
        /\ "PRECISION" \in Dir(c).flags
        /\ Dir(c).precision = 0
        /\ DirMagnitude(c) = <<>>
        => /\ \A i \in 1..Len(c.emitted) :
                \/ c.emitted[i] = cSpace
                \/ /\ c.emitted[i] = cPlus
                   /\ DirConv(c) \in SignedSpecifiers
                   /\ "PLUS" \in Dir(c).flags
           /\ CountIn(c.emitted, {cPlus}) <= 1

\* C7 witness: %#<MaxWidth>.x (with any further flags but '-' and a length
\* modifier) of a value that is 0 in its type has emitted MaxWidth spaces.
C7_HashZeroRendered ==
  \E p \in Procs :
    LET c == call[p]
    IN  /\ Rendered(c)
        /\ DirConv(c) = cLowerX
        /\ {"HASH", "PRECISION", "CHAR"} \subseteq Dir(c).flags
        /\ Dir(c).precision = 0
        /\ Dir(c).width = MaxWidth
        /\ DirArg(c).mag # <<>>
        /\ DirMagnitude(c) = <<>>
        /\ Len(c.emitted) = MaxWidth

\* The states [c, s] (record and sink) a call goes through when it runs with
\* no other call in progress, from machine m and record c on.
RECURSIVE SoloRun(_, _)
SoloRun(m, c) ==
  {[c |-> c, s |-> m.sk[c.ctx]]} \cup UNION {SoloRun(r.m, r.c) : r \in AllSteps(m, c)}

Alone(c, s) ==
  SoloRun([d |-> NewData, sk |-> [q \in Procs |-> SinkOf(c.fn, c.count, s.null)],
           con |-> <<>>, em |-> <<>>, rd |-> {}],
          [c EXCEPT !.pos = 1, !.vai = 1, !.pc = "call", !.ret = 0, !.emitted = <<>>,
                    !.nulout = FALSE, !.strread = {}])

\* C8: with the steps of two calls interleaved in any order, each call is
\* always in a state it goes through when it runs alone: it emits the same
\* characters, stores the same bytes and returns the same value.
C8_AsAlone ==
  \A p \in Procs :
    call[p].pc # "idle" => [c |-> call[p], s |-> sink[p]] \in Alone(call[p], sink[p])

\* C8 witness: both calls are between the fields of a directive and its
\* conversion, one of them having emitted a character already.
C8_BothInDirective ==
  /\ call[1].pc = "conv"
  /\ call[2].pc = "conv"
  /\ call[1].emitted # <<>>
  /\ call[1].mem # call[2].mem

\* C9: the scanner never moves past the terminator of the format, never
\* emits the terminator, and the call returns with the cursor on it.
C9_StopsAtTerminator ==
  \A p \in Procs :
    LET c == call[p]
    IN  c.pc # "idle"
        => /\ c.pos <= c.term
           /\ ~c.nulout
           /\ c.pc = "done" => c.pos = c.term

\* C10: %s with precision p reads only bytes of its argument at indexes
\* below p.
C10_ReadsBelowPrecision ==
  \A p \in Procs :
    LET c == call[p]
    IN  Rendered(c) /\ DirConv(c) = cLowerS /\ "PRECISION" \in Dir(c).flags
        => c.strread \subseteq 0..(Dir(c).precision - 1)

Spaces(n) == [i \in 1..n |-> cSpace]

\* The sign characters a directive may emit: '-' for a negative value, else
\* '+' with the plus flag, else ' ' with the space flag, and at most one.
SignChoices(c) ==
  LET f == Dir(c).flags
      neg == /\ DirConv(c) \in SignedSpecifiers
             /\ IF IsLongArg(f) THEN DirArg(c).neg ELSE SignedValue(f, DirArg(c)).neg
  IN  IF neg THEN {<<cMinus>>}
      ELSE IF "PLUS" \in f THEN {<<>>, <<cPlus>>}
      ELSE IF "SPACE" \in f THEN {<<>>, <<cSpace>>}
      ELSE {<<>>}

\* The radix prefixes a directive may emit.
PrefixChoices(c) ==
  IF "HASH" \notin Dir(c).flags THEN {<<>>}
  ELSE IF DirBase(c) = "HEX"
       THEN {<<>>, <<cZero, IF DirConv(c) = cUpperX THEN cUpperX ELSE cLowerX>>}
  ELSE IF DirBase(c) = "BINARY" THEN {<<>>, <<cZero, cLowerB>>}
  ELSE IF DirBase(c) = "OCTAL" THEN {<<>>, <<cZero>>}
  ELSE {<<>>}

\* C11: a numeric directive emits leading pad spaces, at most one sign
\* character, the radix prefix, leading zeros and the digits, then trailing
\* pad spaces, in this order; leading and trailing pad spaces never both.
C11_EmissionOrder ==
  \A p \in Procs :
    LET c == call[p]
        e == c.emitted
    IN  Rendered(c) /\ DirConv(c) \in IntegerSpecifiers
        => \E a \in 0..Len(e), b \in 0..Len(e), s \in SignChoices(c), x \in PrefixChoices(c) :
             /\ a + b + Len(s) + Len(x) <= Len(e)
             /\ a = 0 \/ b = 0
             /\ LET digits == SubSeq(e, a + Len(s) + Len(x) + 1, Len(e) - b)
                IN  /\ e = Spaces(a) \o s \o x \o digits \o Spaces(b)
                    /\ \A i \in 1..Len(digits) : digits[i] \in DigitChars(DirBase(c))

\* A string argument that holds a terminator, and the number of bytes before
\* it.
Terminated(str) == \E i \in 1..str.size : str.bytes[i] = NUL
StrLen(str) ==
  CHOOSE n \in 0..(str.size - 1) :
    str.bytes[n + 1] = NUL /\ \A i \in 1..n : str.bytes[i] # NUL

\* The effective length e of a terminated string under %s: its length,
\* capped by the precision when there is one. The layout: its first e bytes
\* and the pad spaces up to the width, before the bytes or, left-justified,
\* after them.
StringEffective(c) ==
  LET n == StrLen(DirArg(c))
  IN  IF "PRECISION" \in Dir(c).flags /\ Dir(c).precision < n
      THEN Dir(c).precision ELSE n

StringLayout(c) ==
  LET str == DirArg(c)
      e == StringEffective(c)
      pad == Spaces(IF Dir(c).width > e THEN Dir(c).width - e ELSE 0)
      bytes == [i \in 1..e |-> str.bytes[i]]
  IN  IF "LEFT" \in Dir(c).flags THEN bytes \o pad ELSE pad \o bytes

\* C12: %s with a terminated string of length n, width w and optional
\* precision p emits the first e = min(n, p) bytes (e = n without precision)
\* and max(w - e, 0) pad spaces, before the bytes when right-justified and
\* after them when left-justified: max(w, e) characters in total.
C12_StringLayout ==
  \A p \in Procs :
    LET c == call[p]
    IN  Rendered(c) /\ DirConv(c) = cLowerS /\ Terminated(DirArg(c))
        => /\ c.emitted = StringLayout(c)
           /\ Len(c.emitted) = MAX(Dir(c).width, StringEffective(c))

\* C12 witness: a right-justified %s whose precision cuts the string and
\* whose width exceeds the precision has been rendered.
C12_CutAndPadded ==
  \E p \in Procs :
    LET c == call[p]
    IN  /\ Rendered(c)
        /\ DirConv(c) = cLowerS
        /\ Terminated(DirArg(c))
        /\ Dir(c).flags = {"PRECISION"}
        /\ Dir(c).precision >= 1
        /\ Dir(c).precision < StrLen(DirArg(c))
        /\ Dir(c).width > Dir(c).precision
        /\ Len(c.emitted) = Dir(c).width
        /\ c.emitted[1] = cSpace
        /\ c.emitted[Len(c.emitted)] = DirArg(c).bytes[Dir(c).precision]

====
